---- MODULE Spec2Model ----
(***************************************************************************)
(* modemmonitor: one run of `app` (src/main.rs).  The run fetches the      *)
(* modem's diagnostics page and sets up the matrix client concurrently,    *)
(* compares the error counts with the thresholds, notifies the joined      *)
(* rooms while a 5 second timer runs, and then posts the reboot command.   *)
(*                                                                         *)
(* The futures are polled by one thread: a step of the model is the code   *)
(* that runs between two suspension points of one future.                  *)
(***************************************************************************)
EXTENDS Integers, Sequences, FiniteSets, TLC

(***************************************************************************)
(* Bounds of the model.                                                    *)
(***************************************************************************)
MaxLines == 2
NumRooms == 2

Rooms == 1..NumRooms

\* Values the two threshold options are drawn from (-c and --correct-count).
ThresholdValues == {1, 2}

(***************************************************************************)
(* The diagnostics page.  A field is a string, written as the sequence of  *)
(* its characters; the words "Locked", "QAM256", ... stand for themselves. *)
(* A line is the list of fields `sep.split(l)` yields, a page the list of  *)
(* lines `page.split('\n')` yields.                                        *)
(***************************************************************************)
Digits == {"0", "1", "2", "3", "4", "5", "6", "7", "8", "9"}

DigitVal(c) ==
  CASE c = "0" -> 0 [] c = "1" -> 1 [] c = "2" -> 2 [] c = "3" -> 3
    [] c = "4" -> 4 [] c = "5" -> 5 [] c = "6" -> 6 [] c = "7" -> 7
    [] c = "8" -> 8 [] c = "9" -> 9

(***************************************************************************)
(* u64.  A number is written in base 2^16, least significant limb first:   *)
(* a u64 has four limbs.                                                   *)
(***************************************************************************)
LimbBase == 65536

U64Zero == <<0, 0, 0, 0>>

\* The u64 of a small number (below 2^31).
U64(n) == <<n % LimbBase, n \div LimbBase, 0, 0>>

RECURSIVE MulAdd(_, _, _)
\* a * k + c on limbs: the limbs of the result and the carry out of the top
MulAdd(a, k, c) ==
  IF Len(a) = 0 THEN [limbs |-> <<>>, carry |-> c]
  ELSE LET x    == a[1] * k + c
           rest == MulAdd(Tail(a), k, x \div LimbBase)
       IN  [limbs |-> <<x % LimbBase>> \o rest.limbs, carry |-> rest.carry]

RECURSIVE AddCarry(_, _, _)
\* a + b + c on limbs: the limbs of the result and the carry out of the top
AddCarry(a, b, c) ==
  IF Len(a) = 0 THEN [limbs |-> <<>>, carry |-> c]
  ELSE LET x    == a[1] + b[1] + c
           rest == AddCarry(Tail(a), Tail(b), x \div LimbBase)
       IN  [limbs |-> <<x % LimbBase>> \o rest.limbs, carry |-> rest.carry]

\* a < b
LessU64(a, b) ==
  \E i \in 1..Len(a) :
    /\ a[i] < b[i]
    /\ \A j \in (i + 1)..Len(a) : a[j] = b[j]

RECURSIVE DecVal(_)
\* The u64 a string of decimal digits stands for; not ok when it does not
\* fit (checked_mul, checked_add of from_str_radix).
DecVal(s) ==
  IF Len(s) = 0 THEN [ok |-> TRUE, val |-> U64Zero]
  ELSE LET pre == DecVal(SubSeq(s, 1, Len(s) - 1))
           r   == MulAdd(pre.val, 10, DigitVal(s[Len(s)]))
       IN  [ok |-> pre.ok /\ r.carry = 0, val |-> r.limbs]

\* str::parse::<u64>: an optional leading "+", then one or more decimal
\* digits, the number below 2^64.
ParseU64(f) ==
  LET digits == IF Len(f) > 0 /\ f[1] = "+" THEN Tail(f) ELSE f
  IN  IF Len(digits) > 0 /\ \A i \in 1..Len(digits) : digits[i] \in Digits
      THEN DecVal(digits)
      ELSE [ok |-> FALSE, val |-> U64Zero]

Locked == <<"Locked">>
QAM256 == <<"QAM256">>
Empty  == <<>>

\* l > 5 && fs[2] == "Locked" && fs[3] == "QAM256" (fs is 0-based in the code)
Qualifies(fs) ==
  /\ Len(fs) > 5
  /\ fs[3] = Locked
  /\ fs[4] = QAM256

\* CorrectableField one field too far to the left (fs[l - 4]).
CorrectableFieldOff(fs) == fs[Len(fs) - 3]

\* fs[l - 3] and fs[l - 2] of the code
CorrectableField(fs)   == fs[Len(fs) - 2]
UncorrectableField(fs) == fs[Len(fs) - 1]

\* One of the two unwrap()s of the closure panics on this line.
RowPanics(fs) ==
  /\ Qualifies(fs)
  /\ \/ ~ParseU64(CorrectableField(fs)).ok
     \/ ~ParseU64(UncorrectableField(fs)).ok

PagePanics(p) == \E i \in 1..Len(p) : RowPanics(p[i])

RECURSIVE SumSeq(_)
\* t.0.iter().sum(): u64 additions from 0 on, in the order of the vector.
\* val is the sum as wrapping additions leave it, overflow tells that one of
\* the additions overflowed.
SumSeq(s) ==
  IF Len(s) = 0 THEN [overflow |-> FALSE, val |-> U64Zero]
  ELSE LET pre == SumSeq(SubSeq(s, 1, Len(s) - 1))
           r   == AddCarry(pre.val, s[Len(s)], 0)
       IN  [overflow |-> pre.overflow \/ r.carry # 0, val |-> r.limbs]

RECURSIVE FilterMapUnzip(_)
\* filter_map(..).unzip(): the pair of vectors of the qualifying rows' counts
FilterMapUnzip(p) ==
  IF Len(p) = 0 THEN <<(<<>>), (<<>>)>>
  ELSE LET rest == FilterMapUnzip(Tail(p))
           fs   == p[1]
       IN  IF Qualifies(fs)
           THEN << <<ParseU64(CorrectableField(fs)).val>> \o rest[1],
                   <<ParseU64(UncorrectableField(fs)).val>> \o rest[2] >>
           ELSE rest

\* impl From<(Vec<u64>, Vec<u64>)> for ErrorCount
ErrorCountFrom(t) ==
  [correctable |-> SumSeq(t[1]).val, uncorrectable |-> SumSeq(t[2]).val]

\* One of the two sums overflows: a panic in a build with overflow checks
\* (the debug profile), a wrapped sum in a build without (the release
\* profile).
ErrorCountOverflows(t) == SumSeq(t[1]).overflow \/ SumSeq(t[2]).overflow

\* get_counts panics on the page: in an unwrap(), or in a sum.
GetCountsPanics(p, overflow_checks) ==
  \/ PagePanics(p)
  \/ overflow_checks /\ ErrorCountOverflows(FilterMapUnzip(p))

\* The ErrorCount get_counts returns for the page when it does not panic.
GetCounts(p) == ErrorCountFrom(FilterMapUnzip(p))

\* A downstream-channel row as the modem prints it, cut down to eight fields.
Row(c, u) == <<Empty, <<"1">>, Locked, QAM256, <<"5">>, c, u, Empty>>

\* "9223372036854775808", which is 2^63
TwoTo63 ==
  <<"9", "2", "2", "3", "3", "7", "2", "0", "3", "6",
    "8", "5", "4", "7", "7", "5", "8", "0", "8">>

\* The lines pages are made of.
Lines ==
  { Row(<<"1">>, <<"0">>),                                   \* 1 correctable
    Row(<<"0">>, <<"+", "1">>),                              \* 1 uncorrectable
    Row(<<"x">>, <<"1">>),                                   \* bad 3rd from last
    Row(<<"1">>, <<"-", "1">>),                              \* bad 2nd from last
    <<Empty, <<"1">>, <<"Unlocked">>, QAM256, <<"5">>, <<"7">>, <<"x">>, Empty>>,
    <<Empty, <<"1">>, Locked, QAM256, Empty>> }              \* five fields

RECURSIVE SeqsUpTo(_, _)
SeqsUpTo(S, n) ==
  IF n = 0 THEN {<<>>}
  ELSE LET shorter == SeqsUpTo(S, n - 1)
       IN  shorter \cup {Append(s, x) : s \in shorter, x \in S}

Pages == SeqsUpTo(Lines, MaxLines)

\* What get_counts does with each page, in a build with and in a build
\* without overflow checks.
GetCountsOutcome(p, overflow_checks) ==
  [page |-> p,
   panics |-> GetCountsPanics(p, overflow_checks),
   ct |-> IF PagePanics(p)
          THEN [correctable |-> U64Zero, uncorrectable |-> U64Zero]
          ELSE GetCounts(p)]

PageOutcomes ==
  {GetCountsOutcome(p, overflow_checks) : p \in Pages, overflow_checks \in BOOLEAN}

\* The same lines and a row with a count of 2^63: the pages the parser is
\* examined on.
ParseLines == Lines \cup {Row(TwoTo63, <<"0">>)}

ParsePages == SeqsUpTo(ParseLines, MaxLines)

(***************************************************************************)
(* Opts                                                                    *)
(***************************************************************************)
\* The command line: which flags are present, and the two threshold values.
ArgMatches ==
  [dry_run : BOOLEAN, dry_run_notify : BOOLEAN, reset : BOOLEAN,
   cthreshold : ThresholdValues, uthreshold : ThresholdValues]

\* impl Default for Opts (the thresholds are always overridden: the
\* arguments have default values)
OptsDefault ==
  [dry_run |-> FALSE, reset |-> FALSE, notify |-> TRUE,
   correctable_threshold |-> 100000, uncorrectable_threshold |-> 1000]

\* OptsTryFrom with dry_run taken from the dry-run-but-notify flag alone:
\* the dry-run flag then switches the notifications off and nothing else.
OptsTryFromNotifyFlagOnly(a) ==
  [OptsDefault EXCEPT
     !.uncorrectable_threshold = a.uthreshold,
     !.correctable_threshold = a.cthreshold,
     !.dry_run = a.dry_run_notify,
     !.notify = IF a.dry_run /\ ~a.dry_run_notify THEN FALSE ELSE @,
     !.reset = a.reset]

\* OptsTryFrom with dry_run taken from the dry-run flag alone.
OptsTryFromDryRunOnly(a) ==
  [OptsDefault EXCEPT
     !.uncorrectable_threshold = a.uthreshold,
     !.correctable_threshold = a.cthreshold,
     !.dry_run = a.dry_run,
     !.notify = IF a.dry_run /\ ~a.dry_run_notify THEN FALSE ELSE @,
     !.reset = a.reset]

\* impl TryFrom<&ArgMatches> for Opts
OptsTryFrom(a) ==
  [OptsDefault EXCEPT
     !.uncorrectable_threshold = a.uthreshold,
     !.correctable_threshold = a.cthreshold,
     !.dry_run = a.dry_run \/ a.dry_run_notify,
     !.notify = IF a.dry_run /\ ~a.dry_run_notify THEN FALSE ELSE @,
     !.reset = a.reset]

\* Opts::message
Message(o) ==
  IF o.dry_run THEN "would issue modem reboot"
  ELSE IF o.reset THEN "issuing modem reboot and reset"
  ELSE "issuing modem reboot"

\* Opts::notification_message: the four values the format string is filled with
NotificationMessage(o, c) ==
  [resetting |-> o.reset, correctable |-> c.correctable,
   uncorrectable |-> c.uncorrectable, jk |-> o.dry_run]

\* ResetArg with the two values swapped.
ResetArgSwapped(o) == <<"RestoreFactoryDefault", IF o.reset THEN "0" ELSE "1">>

\* Opts::reset_arg
ResetArg(o) == <<"RestoreFactoryDefault", IF o.reset THEN "1" ELSE "0">>

\* Exceeded with the comparisons turned round (threshold < count): a count
\* equal to its threshold no longer triggers.
ExceededStrict(c, o) ==
  \/ LessU64(U64(o.correctable_threshold), c.correctable)
  \/ LessU64(U64(o.uncorrectable_threshold), c.uncorrectable)

\* The negation of the condition of the early return in app.
Exceeded(c, o) ==
  ~(LessU64(c.correctable, U64(o.correctable_threshold))
      /\ LessU64(c.uncorrectable, U64(o.uncorrectable_threshold)))

(***************************************************************************)
(* State of one run.                                                       *)
(***************************************************************************)
VARIABLES
  m,          \* the command line (ArgMatches)
  opts,       \* Opts::try_from(&m)
  pc,         \* where app is: "gathering", "notifying", "posting", "done"
  result,     \* "none" while running; "ok" / "err": what app returned;
              \* "panic": the process died in an unwrap()
  fetch,      \* get_counts: "get", "sent", "text", "ok", "err", "panic",
              \* "abandoned"
  gets,       \* number of GET requests sent
  status,     \* HTTP status class of the GET's response: "none", "ok", "error"
  page,       \* the page get_counts panicked on (<<>> otherwise)
  ct,         \* the ErrorCount get_counts returned
  setup,      \* matrix_setup: "store", "client", "session_file", "logged_in",
              \* "cfg_open", "cfg_read", "login", "sync", "join", "ok", "err",
              \* "abandoned"
  files,      \* files matrix_setup has opened (or tried to)
  loggedIn,   \* what mc.logged_in() answered: "unknown", "yes", "no"
  logins,     \* number of login requests
  syncs,      \* number of sync requests
  joined,     \* mc.joined_rooms()
  invited,    \* mc.invited_rooms()
  toJoin,     \* invited rooms the for loop has not reached yet
  joins,      \* per room, number of join_room_by_id requests
  evaluated,  \* the threshold comparison has run
  body,       \* <<the notification message>> once composed
  fanout,     \* notifications: "idle", "running", "ok", "err"
  sends,      \* the room_send calls made: [room, body, txn_id]
  sendState,  \* per room: "none", "inflight", "ok", "err", "abandoned"
  nextTxn,    \* source of fresh transaction ids (Uuid::new_v4)
  timer,      \* the grace timer: "idle", "running", "fired"
  printed,    \* <<opts.message()>> once printed
  posts,      \* the POST requests sent: [path, form]
  postStatus  \* the POST's outcome: "none", "ok", "error", "failed"

vars ==
  <<m, opts, pc, result, fetch, gets, status, page, ct, setup, files, loggedIn,
    logins, syncs, joined, invited, toJoin, joins, evaluated, body, fanout, sends,
    sendState, nextTxn, timer, printed, posts, postStatus>>

fetchVars  == <<fetch, gets, status, page, ct>>
setupVars  == <<setup, files, loggedIn, logins, syncs, joined, invited, toJoin,
                 joins>>
notifyVars == <<body, fanout, sends, sendState, nextTxn, timer>>
actVars    == <<printed, posts, postStatus>>

Init ==
  /\ m \in ArgMatches
  /\ opts = OptsTryFrom(m)
  /\ pc = "gathering"
  /\ result = "none"
  /\ fetch = "get"
  /\ gets = 0
  /\ status = "none"
  /\ page = <<>>
  /\ ct = [correctable |-> U64Zero, uncorrectable |-> U64Zero]
  /\ setup = "store"
  /\ files = {}
  /\ loggedIn = "unknown"
  /\ logins = 0
  /\ syncs = 0
  /\ joined = {}
  /\ invited = {}
  /\ toJoin = {}
  /\ joins = [r \in Rooms |-> 0]
  /\ evaluated = FALSE
  /\ body = <<>>
  /\ fanout = "idle"
  /\ sends = {}
  /\ sendState = [r \in Rooms |-> "none"]
  /\ nextTxn = 0
  /\ timer = "idle"
  /\ printed = <<>>
  /\ posts = <<>>
  /\ postStatus = "none"

(***************************************************************************)
(* Gathering: try_join!(get_counts(..), matrix_setup(..))?                 *)
(* The first Err ends app; the other future is dropped where it stands.    *)
(***************************************************************************)
Dropped(s) == IF s \in {"ok", "err"} THEN s ELSE "abandoned"

\* A `?` inside get_counts takes effect: try_join! returns the Err, app too.
FetchErr ==
  /\ fetch' = "err"
  /\ setup' = Dropped(setup)
  /\ pc' = "done"
  /\ result' = "err"

\* A `?` inside matrix_setup takes effect.
SetupErr ==
  /\ setup' = "err"
  /\ fetch' = Dropped(fetch)
  /\ pc' = "done"
  /\ result' = "err"

\* get_counts is the first future try_join! polls: it runs up to
\* c.get(addr.join("")?).send(), which puts the request on the wire.
GetSend ==
  /\ pc = "gathering"
  /\ fetch = "get"
  /\ fetch' = "sent"
  /\ gets' = gets + 1
  /\ UNCHANGED <<m, opts, pc, result, status, page, ct, setupVars, evaluated,
                 notifyVars, actVars>>

\* .send().await?  It is an Err on a transport failure only: a response
\* with an error status is a response.  By the time it is there
\* matrix_setup has run to its first suspension point.
GetResponse ==
  /\ pc = "gathering"
  /\ fetch = "sent"
  /\ setup \notin {"store", "client"}
  /\ \/ /\ FetchErr
        /\ UNCHANGED <<status, files, loggedIn, logins, syncs, joined,
                     invited, toJoin, joins>>
     \/ /\ status' \in {"ok", "error"}
        /\ fetch' = "text"
        /\ UNCHANGED <<setupVars, pc, result>>
  /\ UNCHANGED <<m, opts, gets, page, ct, evaluated, notifyVars, actVars>>

\* res.text().await? and the parse of the page, which runs in the same poll.
GetText ==
  /\ pc = "gathering"
  /\ fetch = "text"
  /\ \/ /\ FetchErr
        /\ UNCHANGED <<page, ct, files, loggedIn, logins, syncs, joined,
                     invited, toJoin, joins>>
     \/ \E o \in PageOutcomes :
          IF o.panics
          THEN /\ fetch' = "panic"
               /\ page' = o.page
               /\ setup' = Dropped(setup)
               /\ pc' = "done"
               /\ result' = "panic"
               /\ UNCHANGED <<ct, files, loggedIn, logins, syncs, joined,
                     invited, toJoin, joins>>
          ELSE /\ fetch' = "ok"
               /\ ct' = o.ct
               /\ UNCHANGED <<page, setupVars, pc, result>>
  /\ UNCHANGED <<m, opts, gets, status, evaluated, notifyVars, actVars>>

(***************************************************************************)
(* matrix_setup                                                            *)
(***************************************************************************)
setupRest(keep) == UNCHANGED <<m, opts, gets, status, page, ct, evaluated,
                               loggedIn, notifyVars, actVars, keep>>

\* JsonStore::open(&cache)?  matrix_setup is polled after get_counts.
StoreOpen ==
  /\ pc = "gathering"
  /\ setup = "store"
  /\ fetch # "get"
  /\ files' = files \cup {"store.json"}
  /\ \/ SetupErr
     \/ /\ setup' = "client"
        /\ UNCHANGED <<fetch, pc, result>>
  /\ setupRest(<<logins, syncs, joined, invited, toJoin, joins>>)

\* ClientNew without the early return for !notify.
ClientNewNoReturn ==
  /\ pc = "gathering"
  /\ setup = "client"
  /\ \/ SetupErr
     \/ /\ setup' = "session_file"
        /\ UNCHANGED <<fetch, pc, result>>
  /\ setupRest(<<files, logins, syncs, joined, invited, toJoin, joins>>)

\* Client::new_with_config(..)?; if !notify { return Ok(mc); }
ClientNew ==
  /\ pc = "gathering"
  /\ setup = "client"
  /\ \/ SetupErr
     \/ /\ setup' = IF ~opts.notify THEN "ok" ELSE "session_file"
        /\ UNCHANGED <<fetch, pc, result>>
  /\ setupRest(<<files, logins, syncs, joined, invited, toJoin, joins>>)

\* blocking!(OpenOptions::new()...create(true).open(<config>/session))?
SessionFileOpen ==
  /\ pc = "gathering"
  /\ setup = "session_file"
  /\ files' = files \cup {"session"}
  /\ \/ SetupErr
     \/ /\ setup' = "logged_in"
        /\ UNCHANGED <<fetch, pc, result>>
  /\ setupRest(<<logins, syncs, joined, invited, toJoin, joins>>)

\* if mc.logged_in().await { return Ok(mc); }
\* A client the store has logged in knows the rooms the store holds.
LoggedIn ==
  /\ pc = "gathering"
  /\ setup = "logged_in"
  /\ \/ /\ loggedIn' = "yes"
        /\ setup' = "ok"
        /\ joined' \in SUBSET Rooms
     \/ /\ loggedIn' = "no"
        /\ setup' = "cfg_open"
        /\ UNCHANGED joined
  /\ UNCHANGED <<fetch, pc, result>>
  /\ UNCHANGED <<m, opts, gets, status, page, ct, evaluated, notifyVars,
                 actVars, files, logins, syncs, invited, toJoin, joins>>

\* blocking!(OpenOptions::new()...create(true).open(<config>/config))?
CfgOpen ==
  /\ pc = "gathering"
  /\ setup = "cfg_open"
  /\ files' = files \cup {"config"}
  /\ \/ SetupErr
     \/ /\ setup' = "cfg_read"
        /\ UNCHANGED <<fetch, pc, result>>
  /\ setupRest(<<logins, syncs, joined, invited, toJoin, joins>>)

\* cfg_file.read_to_string(&mut contents).await?
CfgRead ==
  /\ pc = "gathering"
  /\ setup = "cfg_read"
  /\ \/ SetupErr
     \/ /\ setup' = "login"
        /\ UNCHANGED <<fetch, pc, result>>
  /\ setupRest(<<files, logins, syncs, joined, invited, toJoin, joins>>)

\* mc.login(username, password, device_id, device_display_name).await?
Login ==
  /\ pc = "gathering"
  /\ setup = "login"
  /\ logins' = logins + 1
  /\ \/ SetupErr
     \/ /\ setup' = "sync"
        /\ UNCHANGED <<fetch, pc, result>>
  /\ setupRest(<<files, syncs, joined, invited, toJoin, joins>>)

\* mc.sync(SyncSettings::default()).await?  The response tells the client
\* the rooms it is in and the rooms it is invited to.  With no invitation
\* the for loop is empty and matrix_setup returns in the same poll.
Sync ==
  /\ pc = "gathering"
  /\ setup = "sync"
  /\ syncs' = syncs + 1
  /\ \/ /\ SetupErr
        /\ UNCHANGED <<joined, invited, toJoin>>
     \/ /\ joined' \in SUBSET Rooms
        /\ invited' \in SUBSET (Rooms \ joined')
        /\ toJoin' = invited'
        /\ setup' = IF invited' = {} THEN "ok" ELSE "join"
        /\ UNCHANGED <<fetch, pc, result>>
  /\ setupRest(<<files, logins, joins>>)

\* JoinRoom leaving the loop after the first room joined.
JoinRoomOnce(r) ==
  /\ pc = "gathering"
  /\ setup = "join"
  /\ r \in toJoin
  /\ joins' = [joins EXCEPT ![r] = @ + 1]
  /\ \/ /\ SetupErr
        /\ UNCHANGED toJoin
     \/ /\ toJoin' = toJoin \ {r}
        /\ setup' = "ok"
        /\ UNCHANGED <<fetch, pc, result>>
  /\ setupRest(<<files, logins, syncs, joined, invited>>)

\* One turn of `for id in mc.invited_rooms().read().await.keys()`:
\* mc.join_room_by_id(id).await?  The client's room maps change with a
\* sync response only, and there is no second sync.
JoinRoom(r) ==
  /\ pc = "gathering"
  /\ setup = "join"
  /\ r \in toJoin
  /\ joins' = [joins EXCEPT ![r] = @ + 1]
  /\ \/ /\ SetupErr
        /\ UNCHANGED toJoin
     \/ /\ toJoin' = toJoin \ {r}
        /\ setup' = IF toJoin' = {} THEN "ok" ELSE "join"
        /\ UNCHANGED <<fetch, pc, result>>
  /\ setupRest(<<files, logins, syncs, joined, invited>>)

(***************************************************************************)
(* app, after the gathering                                                *)
(***************************************************************************)
\* Evaluate run as soon as the counts are there, without waiting for
\* matrix_setup (the two awaited one after the other instead of joined).
EvaluateEarly ==
  /\ pc = "gathering"
  /\ fetch = "ok"
  /\ evaluated' = TRUE
  /\ IF Exceeded(ct, opts)
     THEN /\ body' = <<NotificationMessage(opts, ct)>>
          /\ pc' = "notifying"
          /\ UNCHANGED result
     ELSE /\ pc' = "done"
          /\ result' = "ok"
          /\ UNCHANGED body
  /\ UNCHANGED <<m, opts, fetchVars, setupVars, fanout, sends, sendState,
                 nextTxn, timer, actVars>>

\* Evaluate without the early return: app goes on to notify whatever the
\* counts are.
EvaluateNoReturn ==
  /\ pc = "gathering"
  /\ fetch = "ok"
  /\ setup = "ok"
  /\ evaluated' = TRUE
  /\ body' = <<NotificationMessage(opts, ct)>>
  /\ pc' = "notifying"
  /\ UNCHANGED <<m, opts, result, fetchVars, setupVars, fanout, sends,
                 sendState, nextTxn, timer, actVars>>

\* try_join! has both results; the two counts are printed and compared.
\* Below both thresholds app returns Ok(()); otherwise it composes the
\* notification message.
Evaluate ==
  /\ pc = "gathering"
  /\ fetch = "ok"
  /\ setup = "ok"
  /\ evaluated' = TRUE
  /\ IF Exceeded(ct, opts)
     THEN /\ body' = <<NotificationMessage(opts, ct)>>
          /\ pc' = "notifying"
          /\ UNCHANGED result
     ELSE /\ pc' = "done"
          /\ result' = "ok"
          /\ UNCHANGED body
  /\ UNCHANGED <<m, opts, fetchVars, setupVars, fanout, sends, sendState,
                 nextTxn, timer, actVars>>

\* QueueSends with the transaction id made once, outside the closure.
QueueSendsSameTxn(ids, content, txn) ==
  {[room |-> id, body |-> content, txn_id |-> txn] : id \in ids}

\* QueueSends that stops after the first room.
QueueSendsOne(ids, content, txn) ==
  IF ids = {} THEN {}
  ELSE {[room |-> CHOOSE r \in ids : TRUE, body |-> content, txn_id |-> txn]}

RECURSIVE QueueSends(_, _, _)
\* ids.iter().map(|id| c.room_send(id, content.clone(), Some(Uuid::new_v4())))
\* One room_send per id, each with a transaction id of its own.
QueueSends(ids, content, txn) ==
  IF ids = {} THEN {}
  ELSE LET id == CHOOSE r \in ids : TRUE
       IN  {[room |-> id, body |-> content, txn_id |-> txn]}
             \cup QueueSends(ids \ {id}, content, txn + 1)

\* NotificationsStart that waits for a send even when there is none to
\* wait for.
NotificationsStartWaits ==
  /\ pc = "notifying"
  /\ fanout = "idle"
  /\ IF ~opts.notify
     THEN /\ fanout' = "ok"
          /\ UNCHANGED <<sends, sendState, nextTxn>>
     ELSE LET ids == joined
          IN  /\ sends' = sends \cup QueueSends(ids, body[1], nextTxn)
              /\ nextTxn' = nextTxn + Cardinality(ids)
              /\ sendState' = [r \in Rooms |->
                                 IF r \in ids THEN "inflight" ELSE sendState[r]]
              /\ fanout' = "running"
  /\ UNCHANGED <<m, opts, pc, result, fetchVars, setupVars, evaluated, body,
                 timer, actVars>>

\* notifications, up to its first wait for a send.  Without notify it
\* returns Ok(()) at once; with no joined room the while loop ends at once.
NotificationsStart ==
  /\ pc = "notifying"
  /\ fanout = "idle"
  /\ IF ~opts.notify
     THEN /\ fanout' = "ok"
          /\ UNCHANGED <<sends, sendState, nextTxn>>
     ELSE LET ids == joined
          IN  /\ sends' = sends \cup QueueSends(ids, body[1], nextTxn)
              /\ nextTxn' = nextTxn + Cardinality(ids)
              /\ sendState' = [r \in Rooms |->
                                 IF r \in ids THEN "inflight" ELSE sendState[r]]
              /\ fanout' = IF ids = {} THEN "ok" ELSE "running"
  /\ UNCHANGED <<m, opts, pc, result, fetchVars, setupVars, evaluated, body,
                 timer, actVars>>

\* The second future of join!: it is polled after notifications.
\* println!("pausing for cancel...."); Timer::after(Duration::from_secs(5))
TimerStart ==
  /\ pc = "notifying"
  /\ fanout # "idle"
  /\ timer = "idle"
  /\ timer' = "running"
  /\ UNCHANGED <<m, opts, pc, result, fetchVars, setupVars, evaluated, body,
                 fanout, sends, sendState, nextTxn, actVars>>

\* The timer's 5 seconds are over.
TimerFire ==
  /\ pc = "notifying"
  /\ timer = "running"
  /\ timer' = "fired"
  /\ UNCHANGED <<m, opts, pc, result, fetchVars, setupVars, evaluated, body,
                 fanout, sends, sendState, nextTxn, actVars>>

\* SendComplete that keeps the first Err and goes on waiting for the other
\* sends, returning only when none is left.
SendCompleteAwaitAll(r) ==
  /\ pc = "notifying"
  /\ fanout = "running"
  /\ sendState[r] = "inflight"
  /\ \E outcome \in {"ok", "err"} :
       /\ sendState' = [sendState EXCEPT ![r] = outcome]
       /\ fanout' = IF \E q \in Rooms : sendState'[q] = "inflight"
                    THEN "running"
                    ELSE IF \E q \in Rooms : sendState'[q] = "err"
                    THEN "err" ELSE "ok"
  /\ UNCHANGED <<m, opts, pc, result, fetchVars, setupVars, evaluated, body,
                 sends, nextTxn, timer, actVars>>

\* while let Some(done) = msgs.next().await { done?; }
\* One send completes.  An Ok goes round the loop, which ends when no send
\* is left; an Err returns from notifications, and the sends still in msgs
\* are dropped with it.
SendComplete(r) ==
  /\ pc = "notifying"
  /\ fanout = "running"
  /\ sendState[r] = "inflight"
  /\ \/ /\ sendState' = [sendState EXCEPT ![r] = "ok"]
        /\ fanout' = IF \E q \in Rooms : sendState'[q] = "inflight"
                     THEN "running" ELSE "ok"
     \/ /\ sendState' = [q \in Rooms |->
                           IF q = r THEN "err"
                           ELSE IF sendState[q] = "inflight" THEN "abandoned"
                           ELSE sendState[q]]
        /\ fanout' = "err"
  /\ UNCHANGED <<m, opts, pc, result, fetchVars, setupVars, evaluated, body,
                 sends, nextTxn, timer, actVars>>

\* Act with the result of notifications propagated (`?` on the first output
\* of join!): a failed fan-out ends app with the Err.
ActFatal ==
  /\ pc = "notifying"
  /\ fanout \in {"ok", "err"}
  /\ timer = "fired"
  /\ IF fanout = "err"
     THEN /\ pc' = "done"
          /\ result' = "err"
          /\ UNCHANGED <<printed, posts>>
     ELSE /\ printed' = <<Message(opts)>>
          /\ IF opts.dry_run
             THEN /\ pc' = "done"
                  /\ result' = "ok"
                  /\ UNCHANGED posts
             ELSE /\ pc' = "posting"
                  /\ posts' = Append(posts,
                                [path |-> "goform/RgConfiguration.pl",
                                 form |-> <<(<<"Rebooting", "1">>), ResetArg(opts)>>])
                  /\ UNCHANGED result
  /\ UNCHANGED <<m, opts, fetchVars, setupVars, evaluated, notifyVars,
                 postStatus>>

\* Act as if the two futures were raced (select!) instead of joined: app
\* goes on as soon as one of them is done.
ActSelect ==
  /\ pc = "notifying"
  /\ \/ fanout \in {"ok", "err"}
     \/ timer = "fired"
  /\ printed' = <<Message(opts)>>
  /\ IF opts.dry_run
     THEN /\ pc' = "done"
          /\ result' = "ok"
          /\ UNCHANGED posts
     ELSE /\ pc' = "posting"
          /\ posts' = Append(posts,
                        [path |-> "goform/RgConfiguration.pl",
                         form |-> <<(<<"Rebooting", "1">>), ResetArg(opts)>>])
          /\ UNCHANGED result
  /\ UNCHANGED <<m, opts, fetchVars, setupVars, evaluated, notifyVars,
                 postStatus>>

\* join! has both outputs, and `let _ =` drops them.
\* println!("{}", opts.message()); if opts.dry_run { return Ok(()); }
\* c.post(opts.addr.join("goform/RgConfiguration.pl")?)
\*     .form(&[("Rebooting", "1"), opts.reset_arg()]).send()
Act ==
  /\ pc = "notifying"
  /\ fanout \in {"ok", "err"}
  /\ timer = "fired"
  /\ printed' = <<Message(opts)>>
  /\ IF opts.dry_run
     THEN /\ pc' = "done"
          /\ result' = "ok"
          /\ UNCHANGED posts
     ELSE /\ pc' = "posting"
          /\ posts' = Append(posts,
                        [path |-> "goform/RgConfiguration.pl",
                         form |-> <<(<<"Rebooting", "1">>), ResetArg(opts)>>])
          /\ UNCHANGED result
  /\ UNCHANGED <<m, opts, fetchVars, setupVars, evaluated, notifyVars,
                 postStatus>>

\* PostComplete that sends the POST a second time when the first failed.
PostCompleteRetry ==
  /\ pc = "posting"
  /\ \/ /\ Len(posts) < 2
        /\ posts' = Append(posts, posts[1])
        /\ UNCHANGED <<postStatus, result, pc>>
     \/ /\ postStatus' = "failed"
        /\ result' = "err"
        /\ pc' = "done"
        /\ UNCHANGED posts
     \/ /\ postStatus' \in {"ok", "error"}
        /\ result' = "ok"
        /\ pc' = "done"
        /\ UNCHANGED posts
  /\ UNCHANGED <<m, opts, fetchVars, setupVars, evaluated, notifyVars,
                 printed>>

\* .send().await?; Ok(())
\* send() fails on a transport failure only; a response, whatever its
\* status, makes app return Ok(()).
PostComplete ==
  /\ pc = "posting"
  /\ \/ /\ postStatus' = "failed"
        /\ result' = "err"
     \/ /\ postStatus' \in {"ok", "error"}
        /\ result' = "ok"
  /\ pc' = "done"
  /\ UNCHANGED <<m, opts, fetchVars, setupVars, evaluated, notifyVars,
                 printed, posts>>

Next ==
  \/ GetSend
  \/ GetResponse
  \/ GetText
  \/ StoreOpen
  \/ ClientNew
  \/ SessionFileOpen
  \/ LoggedIn
  \/ CfgOpen
  \/ CfgRead
  \/ Login
  \/ Sync
  \/ \E r \in Rooms : JoinRoom(r)
  \/ Evaluate
  \/ NotificationsStart
  \/ TimerStart
  \/ TimerFire
  \/ \E r \in Rooms : SendComplete(r)
  \/ Act
  \/ PostComplete

Spec == Init /\ [][Next]_vars

\* Every request, file operation and timer comes back in the end, and the
\* executor polls a future that can go on: a step that is possible is taken.
FairSpec == Spec /\ WF_vars(Next)

(***************************************************************************)
(* get_counts on its own: the page is there, the parse is the one step.    *)
(***************************************************************************)
InitParse ==
  /\ m = [dry_run |-> FALSE, dry_run_notify |-> FALSE, reset |-> FALSE,
          cthreshold |-> 1, uthreshold |-> 1]
  /\ opts = OptsTryFrom(m)
  /\ pc = "gathering"
  /\ result = "none"
  /\ fetch = "text"
  /\ gets = 1
  /\ status \in {"ok", "error"}
  /\ page \in ParsePages
  /\ ct = [correctable |-> U64Zero, uncorrectable |-> U64Zero]
  /\ setup = "session_file"
  /\ files = {"store.json"}
  /\ loggedIn = "unknown"
  /\ logins = 0
  /\ syncs = 0
  /\ joined = {}
  /\ invited = {}
  /\ toJoin = {}
  /\ joins = [r \in Rooms |-> 0]
  /\ evaluated = FALSE
  /\ body = <<>>
  /\ fanout = "idle"
  /\ sends = {}
  /\ sendState = [r \in Rooms |-> "none"]
  /\ nextTxn = 0
  /\ timer = "idle"
  /\ printed = <<>>
  /\ posts = <<>>
  /\ postStatus = "none"

\* The parse of GetText, applied to the page of the state, which stays.
ParsePage ==
  /\ pc = "gathering"
  /\ fetch = "text"
  /\ \E overflow_checks \in BOOLEAN :
       LET o == GetCountsOutcome(page, overflow_checks)
       IN  IF o.panics
           THEN /\ fetch' = "panic"
                /\ setup' = Dropped(setup)
                /\ pc' = "done"
                /\ result' = "panic"
                /\ UNCHANGED ct
           ELSE /\ fetch' = "ok"
                /\ ct' = o.ct
                /\ UNCHANGED <<setup, pc, result>>
  /\ UNCHANGED <<m, opts, gets, status, page, files, loggedIn, logins, syncs,
                 joined, invited, toJoin, joins, evaluated, notifyVars,
                 actVars>>

NextParse == ParsePage

SpecParse == InitParse /\ [][NextParse]_vars

(***************************************************************************)
(* Properties                                                              *)
(***************************************************************************)
\* The threshold condition, written out.
AtOrAbove ==
  \/ ~LessU64(ct.correctable, U64(opts.correctable_threshold))
  \/ ~LessU64(ct.uncorrectable, U64(opts.uncorrectable_threshold))

BothBelow ==
  /\ LessU64(ct.correctable, U64(opts.correctable_threshold))
  /\ LessU64(ct.uncorrectable, U64(opts.uncorrectable_threshold))

\* app has gone past the early return (it has composed the message).
Proceeded == body # <<>>

\* app has returned Ok(()) from the early return: nothing was done.
StoppedWithoutActing ==
  /\ pc = "done"
  /\ result = "ok"
  /\ body = <<>>
  /\ fanout = "idle"
  /\ timer = "idle"
  /\ printed = <<>>
  /\ posts = <<>>

\* C1: once the counts have been compared, app has proceeded past the
\* comparison if and only if correctable >= correctable_threshold or
\* uncorrectable >= uncorrectable_threshold, and it has stopped without
\* acting if and only if both counts are strictly below their thresholds.
C1_ThresholdDecision ==
  evaluated =>
    /\ Proceeded <=> AtOrAbove
    /\ StoppedWithoutActing <=> BothBelow

\* A count equal to its threshold, the other below: app proceeds.
C1_Witness ==
  /\ evaluated
  /\ ct.correctable = U64(opts.correctable_threshold)
  /\ LessU64(ct.uncorrectable, U64(opts.uncorrectable_threshold))
  /\ Proceeded

\* C2: when get_counts and matrix_setup have both succeeded and both counts
\* are strictly below their thresholds, no message is sent to any room, the
\* timer is never started, no POST is sent, and once the counts have been
\* compared the run is over with Ok(()).
C2_BelowThresholdsNoAction ==
  (fetch = "ok" /\ setup = "ok" /\ BothBelow) =>
    /\ sends = {}
    /\ \A r \in Rooms : sendState[r] = "none"
    /\ fanout = "idle"
    /\ timer = "idle"
    /\ posts = <<>>
    /\ pc \in {"gathering", "done"}
    /\ evaluated <=> pc = "done"
    /\ pc = "done" => result = "ok"

\* A run with notifications and remediation switched on and a joined room,
\* ended by the early return.
C2_Witness ==
  /\ fetch = "ok"
  /\ setup = "ok"
  /\ BothBelow
  /\ pc = "done"
  /\ opts.notify
  /\ ~opts.dry_run
  /\ joined # {}
  /\ ct.correctable # U64Zero

\* C3: with the dry-run flag or the dry-run-but-notify flag on the command
\* line no POST is ever sent; a run that gets past the comparison ends with
\* Ok(()) right after printing "would issue modem reboot", whatever happened
\* to the notifications.
C3_DryRunNeverPosts ==
  (m.dry_run \/ m.dry_run_notify) =>
    /\ posts = <<>>
    /\ pc # "posting"
    /\ postStatus = "none"
    /\ printed # <<>> =>
         /\ printed = <<"would issue modem reboot">>
         /\ pc = "done"
         /\ result = "ok"
    /\ (pc = "done" /\ Proceeded) => (printed # <<>> /\ result = "ok")

\* Dry run with the notify override, the reset flag on and a failed send.
C3_Witness ==
  /\ m.dry_run_notify
  /\ ~m.dry_run
  /\ m.reset
  /\ pc = "done"
  /\ printed # <<>>
  /\ fanout = "err"

\* C4: the POST is sent only when notifications has returned and the timer
\* has fired, with no send left in flight; the timer is started only after
\* the comparison, and while it runs app neither prints the action, nor
\* posts, nor ends.
C4_PostAfterFanoutAndTimer ==
  /\ posts # <<>> =>
       /\ fanout \in {"ok", "err"}
       /\ timer = "fired"
       /\ \A r \in Rooms : sendState[r] # "inflight"
  /\ printed # <<>> => (fanout \in {"ok", "err"} /\ timer = "fired")
  /\ timer # "idle" => (evaluated /\ Proceeded)
  /\ timer = "running" => (pc = "notifying" /\ printed = <<>> /\ posts = <<>>)
  /\ fanout = "running" => (pc = "notifying" /\ printed = <<>> /\ posts = <<>>)

\* A POST sent after two sends completed and the timer fired.
C4_Witness ==
  /\ posts # <<>>
  /\ joined = Rooms
  /\ \A r \in Rooms : sendState[r] = "ok"
  /\ timer = "fired"

\* C5 as stated: once notifications has returned an Err no POST is sent and
\* the run ends with an Err.
C5_NotificationFailureFatal ==
  fanout = "err" =>
    /\ posts = <<>>
    /\ pc = "done" => result = "err"

\* C5, amended: the Err of notifications is dropped.  After a failed
\* fan-out app still waits for the timer, prints the action and, unless
\* this is a dry run, sends the POST once; the result of the run is Ok(())
\* in a dry run and otherwise depends on the POST alone.
C5_NotificationFailureIgnored ==
  fanout = "err" =>
    /\ pc \in {"notifying", "posting", "done"}
    /\ pc = "notifying" => (printed = <<>> /\ posts = <<>> /\ result = "none")
    /\ pc # "notifying" =>
         /\ timer = "fired"
         /\ printed = <<Message(opts)>>
         /\ Len(posts) = (IF opts.dry_run THEN 0 ELSE 1)
    /\ pc = "done" =>
         result = (IF ~opts.dry_run /\ postStatus = "failed" THEN "err" ELSE "ok")

\* A run that ended Ok(()) with the POST sent after a failed fan-out.
C5_Witness ==
  /\ fanout = "err"
  /\ pc = "done"
  /\ Len(posts) = 1
  /\ result = "ok"

\* app has done nothing of what follows the gathering.
NothingAfterGathering ==
  /\ ~evaluated
  /\ body = <<>>
  /\ sends = {}
  /\ fanout = "idle"
  /\ timer = "idle"
  /\ printed = <<>>
  /\ posts = <<>>

\* C6: the counts are compared only after get_counts and matrix_setup have
\* both returned Ok; once either has returned an Err the run is over with
\* that Err, and no comparison, send, timer or POST has happened or will.
\* (A panic of get_counts ends the run as well, with none of these.)
C6_GatheringJoin ==
  /\ evaluated => (fetch = "ok" /\ setup = "ok")
  /\ pc # "gathering" /\ result # "err" /\ result # "panic" =>
       (fetch = "ok" /\ setup = "ok")
  /\ (fetch = "err" \/ setup = "err") =>
       /\ pc = "done"
       /\ result = "err"
       /\ NothingAfterGathering
  /\ fetch = "panic" => (pc = "done" /\ NothingAfterGathering)

\* matrix_setup failed although the counts were there and below both
\* thresholds: the run ends with the Err, not with the no-op Ok(()).
C6_Witness ==
  /\ setup = "err"
  /\ fetch = "ok"
  /\ BothBelow
  /\ pc = "done"
  /\ result = "err"

SendsTo(r) == {s \in sends : s.room = r}

\* C7: no room is ever sent to twice; once notifications has started with
\* notify set, every joined room has exactly one send, no other room has
\* one, and every send carries the one message composed for the run.
C7_OneSendPerJoinedRoom ==
  /\ \A r \in Rooms : Cardinality(SendsTo(r)) <= 1
  /\ \A s \in sends : Proceeded /\ s.body = body[1]
  /\ (opts.notify /\ fanout # "idle") =>
       /\ \A r \in joined : Cardinality(SendsTo(r)) = 1
       /\ \A r \in Rooms \ joined : SendsTo(r) = {}
       /\ body[1] = NotificationMessage(opts, ct)
  /\ (Proceeded /\ opts.notify /\ pc = "done") => fanout # "idle"

\* A dry run with the notify override, every room joined, over.
C7_Witness ==
  /\ m.dry_run_notify
  /\ joined = Rooms
  /\ pc = "done"
  /\ \A r \in Rooms : Cardinality(SendsTo(r)) = 1

\* C8 as stated: when notifications has returned, every send it started
\* has completed, with Ok or with Err.
C8_AllSendsAwaited ==
  fanout \in {"ok", "err"} =>
    \A r \in Rooms : sendState[r] \in {"none", "ok", "err"}

\* C8, amended: notifications returns Ok only after every send has
\* completed with Ok; it returns at the first send that completes with an
\* Err, that Err being its result, and the sends still in flight then are
\* dropped without being waited for.  While it runs no send has failed.
C8_ReturnsAtFirstFailure ==
  /\ fanout = "ok" =>
       /\ \A r \in Rooms : sendState[r] \in {"none", "ok"}
       /\ opts.notify => \A r \in joined : sendState[r] = "ok"
  /\ fanout = "err" =>
       /\ Cardinality({r \in Rooms : sendState[r] = "err"}) = 1
       /\ \A r \in joined : sendState[r] \in {"ok", "err", "abandoned"}
  /\ fanout = "running" =>
       /\ \A r \in joined : sendState[r] \in {"inflight", "ok"}
       /\ \E r \in joined : sendState[r] = "inflight"
  /\ \A r \in Rooms : sendState[r] = "abandoned" => fanout = "err"

\* notifications has returned the Err of one send while another was in flight.
C8_Witness ==
  /\ fanout = "err"
  /\ \E r \in Rooms : sendState[r] = "abandoned"

\* C9: with the dry-run flag and without the notify override matrix_setup
\* logs in nowhere, syncs nothing, joins no room and opens no file but the
\* store; no send and no POST is made; and a run whose counts reach a
\* threshold composes the message and ends with Ok(()) after printing
\* "would issue modem reboot", which it does only after the timer fired.
C9_NotificationsDisabled ==
  (m.dry_run /\ ~m.dry_run_notify) =>
    /\ ~opts.notify
    /\ logins = 0
    /\ syncs = 0
    /\ \A r \in Rooms : joins[r] = 0
    /\ files \subseteq {"store.json"}
    /\ sends = {}
    /\ \A r \in Rooms : sendState[r] = "none"
    /\ posts = <<>>
    /\ (evaluated /\ AtOrAbove) => body = <<NotificationMessage(opts, ct)>>
    /\ printed # <<>> => (timer = "fired" /\ Proceeded)
    /\ (evaluated /\ AtOrAbove /\ pc = "done") =>
         (printed = <<"would issue modem reboot">> /\ result = "ok")

\* A run without notifications that printed the action.
C9_Witness ==
  /\ m.dry_run
  /\ ~m.dry_run_notify
  /\ pc = "done"
  /\ printed # <<>>
  /\ fanout = "ok"

\* The field is a non-negative integer in decimal digits.
ValidCount(f) == Len(f) > 0 /\ \A i \in 1..Len(f) : f[i] \in Digits

\* A downstream-channel row whose third-from-last or second-from-last
\* field is no valid count.
MalformedRow(fs) ==
  /\ Len(fs) > 5
  /\ fs[3] = <<"Locked">>
  /\ fs[4] = <<"QAM256">>
  /\ \/ ~ValidCount(fs[Len(fs) - 2])
     \/ ~ValidCount(fs[Len(fs) - 1])

\* C10: a page with a malformed downstream-channel row makes get_counts
\* return an Err, with which the run ends; the process does not crash.
C10_MalformedRowIsReportedError ==
  (fetch \notin {"get", "sent", "text"} /\ \E i \in 1..Len(page) : MalformedRow(page[i])) =>
    /\ fetch = "err"
    /\ result = "err"


\* C11: a GET answered with an error status makes get_counts return an Err:
\* its body is never turned into counts, the counts are never compared, and
\* the run does not end with Ok(()).
C11_ErrorStatusIsFetchError ==
  status = "error" =>
    /\ fetch # "ok"
    /\ ~evaluated
    /\ pc = "done" => result # "ok"

\* C13: every POST sent goes to goform/RgConfiguration.pl with the form
\* Rebooting=1, RestoreFactoryDefault=1 when the reset flag is on the
\* command line and RestoreFactoryDefault=0 when it is not.
C13_PostForm ==
  \A i \in 1..Len(posts) :
    /\ posts[i].path = "goform/RgConfiguration.pl"
    /\ Len(posts[i].form) = 2
    /\ posts[i].form[1] = <<"Rebooting", "1">>
    /\ posts[i].form[2][1] = "RestoreFactoryDefault"
    /\ posts[i].form[2][2] = "1" <=> m.reset
    /\ posts[i].form[2][2] = "0" <=> ~m.reset

\* A POST sent with the reset flag on.
C13_Witness ==
  /\ Len(posts) = 1
  /\ m.reset
  /\ posts[1].form[2] = <<"RestoreFactoryDefault", "1">>

\* C14: a run that has sent the POST ends with Ok(()) only if the POST was
\* answered with a success status; a transport failure and an error status
\* both end it with an Err.
C14_PostFailureIsError ==
  (pc = "done" /\ posts # <<>>) =>
    /\ postStatus \in {"failed", "error"} => result = "err"
    /\ result = "ok" => postStatus = "ok"


\* C15: with notify set, the session file has been opened (and created if
\* missing) before mc.logged_in() is asked.  If the client is logged in,
\* matrix_setup returns without opening the config file, logging in, syncing
\* or joining.  Otherwise it logs in once, then syncs once, then joins the
\* invited rooms, and it returns Ok only when every invited room has been
\* joined once; a step that fails ends it with the Err.
C15_SessionSetupOrder ==
  opts.notify =>
    /\ loggedIn # "unknown" => "session" \in files
    /\ "config" \in files => loggedIn = "no"
    /\ loggedIn = "yes" =>
         /\ setup \in {"ok", "abandoned"}
         /\ "config" \notin files
         /\ logins = 0 /\ syncs = 0
         /\ \A r \in Rooms : joins[r] = 0
    /\ logins <= 1 /\ syncs <= logins
    /\ logins = 1 => (loggedIn = "no" /\ "config" \in files)
    /\ syncs = 1 => (logins = 1 /\ setup \notin {"cfg_open", "cfg_read", "login"})
    /\ \A r \in Rooms :
         /\ joins[r] <= 1
         /\ joins[r] = 1 => (syncs = 1 /\ r \in invited)
    /\ (setup = "ok" /\ loggedIn = "no") =>
         /\ logins = 1 /\ syncs = 1
         /\ toJoin = {}
         /\ \A r \in invited : joins[r] = 1
    /\ setup = "err" => (pc = "done" /\ result = "err")

\* Not logged in, both rooms invited, both joined, matrix_setup returned Ok.
C15_Witness ==
  /\ opts.notify
  /\ setup = "ok"
  /\ loggedIn = "no"
  /\ invited = Rooms
  /\ \A r \in Rooms : joins[r] = 1

\* C16: no two sends carry the same transaction id, although they carry the
\* same body.
C16_DistinctTransactionIds ==
  \A s1 \in sends : \A s2 \in sends :
    s1.room # s2.room => (s1.txn_id # s2.txn_id /\ s1.body = s2.body)

\* Sends to two different rooms.
C16_Witness ==
  \E s1 \in sends : \E s2 \in sends : s1.room # s2.room

\* C17: whatever fails, the GET, the login, the sync, the join of a room,
\* the send to a room and the POST are each made at most once in a run.
C17_NothingRetried ==
  /\ gets <= 1
  /\ logins <= 1
  /\ syncs <= 1
  /\ \A r \in Rooms : joins[r] <= 1
  /\ \A r \in Rooms : Cardinality(SendsTo(r)) <= 1
  /\ Cardinality(sends) <= Cardinality(joined)
  /\ Len(posts) <= 1

\* A run in which a send and the POST failed, each made once.
C17_Witness ==
  /\ pc = "done"
  /\ fanout = "err"
  /\ postStatus = "failed"
  /\ result = "err"
  /\ gets = 1
  /\ logins = 1
  /\ Len(posts) = 1

\* C18: notify is false only when dry_run is true; so a run that sends the
\* POST had notify set: matrix_setup returned a client that was logged in or
\* has logged in and synced, and notifications had made its send to every
\* joined room and returned before the POST.
C18_PostImpliesNotify ==
  /\ ~opts.notify => opts.dry_run
  /\ posts # <<>> =>
       /\ opts.notify
       /\ setup = "ok"
       /\ "session" \in files
       /\ loggedIn = "yes" \/ (loggedIn = "no" /\ logins = 1 /\ syncs = 1)
       /\ fanout \in {"ok", "err"}
       /\ \A r \in joined : Cardinality(SendsTo(r)) = 1

\* A POST sent after a login and the send to a joined room.
C18_Witness ==
  /\ posts # <<>>
  /\ loggedIn = "no"
  /\ joined # {}
  /\ fanout = "ok"


\* C19: when every operation the run waits for returns and the timer
\* fires, the run ends: app returns or the process dies.
C19_RunTerminates == <>(pc = "done")

\* A run with notify set and no joined room that went through both join
\* points and ended.
C19_Witness ==
  /\ pc = "done"
  /\ opts.notify
  /\ joined = {}
  /\ fanout = "ok"
  /\ timer = "fired"


\* A line of more than five fields, the 3rd "Locked", the 4th "QAM256".
IsChannelRow(fs) ==
  /\ Len(fs) > 5
  /\ fs[3] = <<"Locked">>
  /\ fs[4] = <<"QAM256">>

RECURSIVE NumberOf(_)
\* The number a string of decimal digits stands for, on five limbs.
NumberOf(digits) ==
  IF Len(digits) = 0 THEN <<0, 0, 0, 0, 0>>
  ELSE MulAdd(NumberOf(SubSeq(digits, 1, Len(digits) - 1)), 10,
              DigitVal(digits[Len(digits)])).limbs

\* The number a field stands for (a sign "+" may precede the digits).
FieldNumber(f) == NumberOf(IF f[1] = "+" THEN Tail(f) ELSE f)

RECURSIVE SumOfFields(_, _)
\* The sum, on five limbs, of the k-th field from the end of the channel
\* rows of the page (k = 3: third from last).
SumOfFields(p, k) ==
  IF Len(p) = 0 THEN <<0, 0, 0, 0, 0>>
  ELSE IF IsChannelRow(p[1])
  THEN AddCarry(FieldNumber(p[1][Len(p[1]) - k + 1]),
                SumOfFields(Tail(p), k), 0).limbs
  ELSE SumOfFields(Tail(p), k)

====
